---- MODULE Spec2Model ----
(***************************************************************************)
(* Model of bocadillo/error_handlers.py: the three built-in error          *)
(* handlers (error_to_html, error_to_media, error_to_text), the recursive  *)
(* coroutine _to_res and the wrapper convert_exception_to_response.        *)
(*                                                                         *)
(* A call of the wrapped handler `inner` is split at its only suspension   *)
(* point, `await dispatch(req)`: Call starts it, DispatchReturnNew,       *)
(* DispatchReturnShared and DispatchRaise resume it with the outcome of    *)
(* the inner handler, so calls interleave as coroutines do.  The           *)
(* except path (_to_res, its recursion, the Response construction, the     *)
(* error handler and traceback.print_exc) has no suspension point and is   *)
(* one atomic step.                                                        *)
(***************************************************************************)
EXTENDS Integers, Sequences, FiniteSets, TLC

VARIABLES
    wrapped,                \* config -> error_handler held by the closure `inner`
    calls,                  \* the calls of wrapped handlers, in start order
    heap,                   \* every Response object constructed so far
    probe                   \* a response and an error handed to a formatter directly

vars == <<wrapped, calls, heap, probe>>

----------------------------------------------------------------------------
(* Bounds *)

MaxCalls == 2

----------------------------------------------------------------------------
(* Values *)

PyNone == "<None>"

InternalServerError == 500

NoStatus == 0

\* The error_handler argument of convert_exception_to_response: omitted
\* (None), one of the three built-in formatters, or any other callable.
\* Two callables stand for the others: one that raises, one that ignores
\* the error and writes a fixed 503 response.
Formatters == {"error_to_html", "error_to_media", "error_to_text"}

CustomHandlers == {"custom_raise", "custom_const"}

Configs == {PyNone} \cup Formatters \cup CustomHandlers

NoMedia == [unset |-> TRUE]

\* Response(req, **kwargs): a new response object bound to the request.
Response(req, owner) ==
    [req |-> req, status_code |-> NoStatus, html |-> PyNone,
     media |-> NoMedia, text |-> PyNone, owner |-> owner]

\* The phrase of an HTTP status, the title of an HTTPError built from it.
StatusTitle(status) ==
    CASE status = 400 -> "Bad Request"
      [] status = 403 -> "Forbidden"
      [] status = 404 -> "Not Found"
      [] status = 500 -> "Internal Server Error"
      [] OTHER -> "Error"

\* HTTPError(status, detail=""): no title or detail is passed at line 47.
HTTPError(status, detail) ==
    [cls |-> "HTTPError", is_exception |-> TRUE, status_code |-> status,
     title |-> StatusTitle(status), detail |-> detail, msg |-> ""]

\* An exception of another class; is_exception: the class derives from
\* Exception (and not only from BaseException).
OtherError(cls, is_exception, msg) ==
    [cls |-> cls, is_exception |-> is_exception, status_code |-> NoStatus,
     title |-> "", detail |-> "", msg |-> msg]

NoExc == OtherError(PyNone, FALSE, "")

\* Python truthiness of exc.detail: None and "" are falsy.
Truthy(detail) == detail # PyNone /\ detail # ""

----------------------------------------------------------------------------
(* The built-in error handlers, lines 11-32 *)

\* error_to_html with the detail put on the title's line.
ErrorToHtmlInline(res, exc) ==
    LET head == "<h1>" \o exc.title \o "</h1>"
        html == IF Truthy(exc.detail)
                THEN head \o "<p>" \o exc.detail \o "</p>"
                ELSE head
    IN  [res EXCEPT !.status_code = exc.status_code, !.html = html]

ErrorToHtml(res, exc) ==
    LET head == "<h1>" \o exc.title \o "</h1>"
        html == IF Truthy(exc.detail)
                THEN head \o "\n<p>" \o exc.detail \o "</p>"
                ELSE head
    IN  [res EXCEPT !.status_code = exc.status_code, !.html = html]

ErrorToMedia(res, exc) ==
    LET base  == ("error" :> exc.title) @@ ("status" :> exc.status_code)
        media == IF Truthy(exc.detail)
                 THEN ("detail" :> exc.detail) @@ base
                 ELSE base
    IN  [res EXCEPT !.status_code = exc.status_code, !.media = media]

ErrorToText(res, exc) ==
    LET text == IF Truthy(exc.detail)
                THEN exc.title \o "\n" \o exc.detail
                ELSE exc.title
    IN  [res EXCEPT !.status_code = exc.status_code, !.text = text]

\* error_handler(req, res, exc), line 43: the response as the handler leaves
\* it, or the exception the handler raises.
CallHandler(error_handler, res, exc) ==
    CASE error_handler = "error_to_html" ->
            [raised |-> FALSE, res |-> ErrorToHtml(res, exc), exc |-> NoExc]
      [] error_handler = "error_to_media" ->
            [raised |-> FALSE, res |-> ErrorToMedia(res, exc), exc |-> NoExc]
      [] error_handler = "error_to_text" ->
            [raised |-> FALSE, res |-> ErrorToText(res, exc), exc |-> NoExc]
      [] error_handler = "custom_const" ->
            [raised |-> FALSE,
             res |-> [res EXCEPT !.status_code = 503, !.text = "unavailable"],
             exc |-> NoExc]
      [] error_handler = "custom_raise" ->
            [raised |-> TRUE, res |-> res,
             exc |-> OtherError("RuntimeError", TRUE, "handler failed")]

----------------------------------------------------------------------------
(* _to_res, lines 38-48 *)

\* A wrapper that keeps one Response object and resets it for every error.
NewResponsePooled(hp, req) ==
    LET own == {i \in 1..Len(hp) : hp[i].owner = "_to_res"}
    IN  IF own = {}
        THEN [heap |-> Append(hp, Response(req, "_to_res")), id |-> Len(hp) + 1]
        ELSE LET i == CHOOSE i \in own : \A j \in own : i <= j
             IN  [heap |-> [hp EXCEPT ![i] = Response(req, "_to_res")], id |-> i]

\* res = Response(req, **kwargs), line 42: a new object on the heap.
NewResponse(hp, req) ==
    [heap |-> Append(hp, Response(req, "_to_res")), id |-> Len(hp) + 1]

\* A trace for every error, whatever its status.
TracedAlways(exc, res) == TRUE

\* A trace decided by the status the error handler left on the response.
TracedByResponse(exc, res) == res.status_code = InternalServerError

\* if exc.status_code == 500, line 44: whether traceback.print_exc() runs for
\* the error exc formatted into the response res.
Traced(exc, res) == exc.status_code = InternalServerError

\* A synthesized error that carries the message of the unknown exception.
SynthesizedLeaky(exc) == HTTPError(InternalServerError, exc.msg)

\* HTTPError(500), line 47: the error that stands for an unknown exception.
Synthesized(exc) == HTTPError(InternalServerError, "")

RECURSIVE ToRes(_, _, _, _)
ToRes(req, exc, error_handler, hp) ==
    IF exc.cls = "HTTPError"
    THEN LET new == NewResponse(hp, req)
             fmt == CallHandler(error_handler, new.heap[new.id], exc)
         IN  IF fmt.raised
             THEN [raised |-> TRUE, exc |-> fmt.exc, res |-> 0,
                   heap |-> new.heap, traces |-> 0,
                   invoked |-> <<error_handler>>]
             ELSE [raised |-> FALSE, exc |-> NoExc, res |-> new.id,
                   heap |-> [new.heap EXCEPT ![new.id] = fmt.res],
                   traces |-> IF Traced(exc, fmt.res) THEN 1 ELSE 0,
                   invoked |-> <<error_handler>>]
    ELSE ToRes(req, Synthesized(exc), error_handler, hp)

----------------------------------------------------------------------------
(* convert_exception_to_response, lines 51-66 *)

\* A default of error_to_html instead.
DefaultHandlerHtml(error_handler) ==
    IF error_handler = PyNone THEN "error_to_html" ELSE error_handler

\* if error_handler is None: error_handler = error_to_text, lines 55-56.
DefaultHandler(error_handler) ==
    IF error_handler = PyNone THEN "error_to_text" ELSE error_handler

\* except Exception, line 62: the clause catches instances of Exception.
Catches(exc) == exc.is_exception

\* The exceptions the inner handler may raise.  asyncio.CancelledError derives
\* from Exception before Python 3.8 and from BaseException alone since.
Raisable ==
    {HTTPError(s, d) : s \in {404, 500}, d \in {"", "boom"}}
    \cup {OtherError("ValueError", TRUE, m) : m \in {"secret one", "secret two"}}
    \cup {OtherError("CancelledError", b, "") : b \in BOOLEAN}
    \cup {OtherError("KeyboardInterrupt", FALSE, "")}

\* A call of inner(req) on the wrapper built with `config`, suspended at
\* `await dispatch(req)`, line 61.
NewCall(config, req) ==
    [config |-> config, req |-> req, pc |-> "dispatch", exc |-> NoExc,
     dispatched |-> 0, res |-> 0, outcome |-> "pending", raised |-> NoExc,
     traces |-> 0, invoked |-> <<>>]

\* A wrapper that drops the response of the inner handler and returns None.
InnerReturnNone(call, id) ==
    [call EXCEPT !.pc = "done", !.dispatched = id, !.res = 0,
                 !.outcome = "returned"]

\* dispatch(req) returned the response object `id`: lines 61 and 64.
InnerReturn(call, id) ==
    [call EXCEPT !.pc = "done", !.dispatched = id, !.res = id,
                 !.outcome = "returned"]

\* dispatch(req) raised `exc`: lines 62-64.  An exception the clause does not
\* catch, or one raised inside _to_res, leaves inner.
InnerExcept(call, exc, error_handler, hp) ==
    IF Catches(exc)
    THEN LET r == ToRes(call.req, exc, error_handler, hp)
         IN  [call |-> [call EXCEPT !.pc = "done", !.exc = exc, !.res = r.res,
                            !.outcome = IF r.raised THEN "raised" ELSE "returned",
                            !.raised = r.exc, !.traces = r.traces,
                            !.invoked = r.invoked],
              heap |-> r.heap]
    ELSE [call |-> [call EXCEPT !.pc = "done", !.exc = exc,
                        !.outcome = "raised", !.raised = exc],
          heap |-> hp]

----------------------------------------------------------------------------
(* The state machine *)

NoProbe == [res |-> Response(0, "probe"), exc |-> NoExc, applied |-> PyNone]

Init ==
    /\ wrapped = [c \in Configs |-> DefaultHandler(c)]
    /\ calls = <<>>
    /\ heap = <<>>
    /\ probe = NoProbe

\* inner(req) is called with a new request on the wrapper built with config.
Call(config) ==
    /\ Len(calls) < MaxCalls
    /\ calls' = Append(calls, NewCall(config, Len(calls) + 1))
    /\ UNCHANGED <<wrapped, heap, probe>>

\* The inner handler builds a response of its own and returns it.
DispatchReturnNew(c, status) ==
    /\ calls[c].pc = "dispatch"
    /\ heap' = Append(heap, [Response(calls[c].req, "dispatch") EXCEPT
                                !.status_code = status, !.text = "body"])
    /\ calls' = [calls EXCEPT ![c] = InnerReturn(@, Len(heap) + 1)]
    /\ UNCHANGED <<wrapped, probe>>

\* The inner handler returns a response object it has returned before.
DispatchReturnShared(c, id) ==
    /\ calls[c].pc = "dispatch"
    /\ heap[id].owner = "dispatch"
    /\ calls' = [calls EXCEPT ![c] = InnerReturn(@, id)]
    /\ UNCHANGED <<wrapped, heap, probe>>

DispatchRaise(c, exc) ==
    /\ calls[c].pc = "dispatch"
    /\ LET r == InnerExcept(calls[c], exc, wrapped[calls[c].config], heap)
       IN  /\ calls' = [calls EXCEPT ![c] = r.call]
           /\ heap' = r.heap
    /\ UNCHANGED <<wrapped, probe>>

Next ==
    \/ \E config \in Configs : Call(config)
    \/ \E c \in 1..Len(calls), status \in {200, 500} : DispatchReturnNew(c, status)
    \/ \E c \in 1..Len(calls), id \in 1..Len(heap) : DispatchReturnShared(c, id)
    \/ \E c \in 1..Len(calls), exc \in Raisable : DispatchRaise(c, exc)

Spec == Init /\ [][Next]_vars

----------------------------------------------------------------------------
(* The formatters applied directly: any response, any error *)

\* Responses a formatter may be handed: new ones and ones already written to.
AnyResponses ==
    {[Response(0, "probe") EXCEPT !.status_code = st, !.html = h, !.text = t] :
        st \in {NoStatus, 200, 500}, h \in {PyNone, "<p>old</p>"},
        t \in {PyNone, "old"}}

\* Errors with any status, title and detail (None, empty or given).
AnyErrors ==
    {[HTTPError(st, d) EXCEPT !.title = t] :
        st \in {400, 403, 404, 500},
        t \in {"Not Found", "Bad Request"},
        d \in {PyNone, "", "missing field x"}}

InitFmt ==
    /\ wrapped = [c \in Configs |-> DefaultHandler(c)]
    /\ calls = <<>>
    /\ heap = <<>>
    /\ probe \in [res : AnyResponses, exc : AnyErrors, applied : {PyNone}]

FormatHtml ==
    /\ probe.applied = PyNone
    /\ probe' = [probe EXCEPT !.res = ErrorToHtml(probe.res, probe.exc),
                              !.applied = "error_to_html"]
    /\ UNCHANGED <<wrapped, calls, heap>>

FormatMedia ==
    /\ probe.applied = PyNone
    /\ probe' = [probe EXCEPT !.res = ErrorToMedia(probe.res, probe.exc),
                              !.applied = "error_to_media"]
    /\ UNCHANGED <<wrapped, calls, heap>>

FormatText ==
    /\ probe.applied = PyNone
    /\ probe' = [probe EXCEPT !.res = ErrorToText(probe.res, probe.exc),
                              !.applied = "error_to_text"]
    /\ UNCHANGED <<wrapped, calls, heap>>

NextFmt == FormatHtml \/ FormatMedia \/ FormatText

SpecFmt == InitFmt /\ [][NextFmt]_vars

----------------------------------------------------------------------------
(* Claims *)

DetailAbsent(exc) == exc.detail \in {PyNone, ""}

\* C7: each built-in formatter leaves response.status_code equal to
\* error.status_code and writes its own body: HTML <h1>title</h1>, then a
\* newline and <p>detail</p> when detail is present; media {"error": title,
\* "status": status_code}, plus "detail" when present; text title, then a
\* newline and detail when present.
C7_FormattersEncode ==
    LET e == probe.exc
        r == probe.res
    IN  /\ probe.applied # PyNone => r.status_code = e.status_code
        /\ probe.applied = "error_to_html" =>
              r.html = IF DetailAbsent(e)
                       THEN "<h1>" \o e.title \o "</h1>"
                       ELSE "<h1>" \o e.title \o "</h1>\n<p>" \o e.detail \o "</p>"
        /\ probe.applied = "error_to_media" =>
              r.media = IF DetailAbsent(e)
                        THEN [error |-> e.title, status |-> e.status_code]
                        ELSE [error |-> e.title, status |-> e.status_code,
                              detail |-> e.detail]
        /\ probe.applied = "error_to_text" =>
              r.text = IF DetailAbsent(e)
                       THEN e.title
                       ELSE e.title \o "\n" \o e.detail

\* The spec's own examples of the three encodings are among the cases.
C7_Witness ==
    \/ /\ probe.applied = "error_to_media"
       /\ probe.res.status_code = 400
       /\ probe.res.media = [error |-> "Bad Request", status |-> 400,
                             detail |-> "missing field x"]
    \/ /\ probe.applied = "error_to_html"
       /\ probe.exc.detail = PyNone
       /\ probe.res.status_code = 404
       /\ probe.res.html = "<h1>Not Found</h1>"

(* Claims about the wrapped handler, over the finished calls *)

Done == {c \in 1..Len(calls) : calls[c].pc = "done"}

\* dispatch(req) raised.
Errored(c) == calls[c].exc # NoExc

Unknown(c) == Errored(c) /\ calls[c].exc.cls # "HTTPError"

\* inner(req) returned a response (rather than raising).
Returned(c) == calls[c].outcome = "returned"

Resp(c) == heap[calls[c].res]

Body(r) == <<r.html, r.media, r.text>>

\* The wrapper was built with one of the three formatters, or with none.
BuiltIn(c) == calls[c].config \in Formatters \cup {PyNone}

\* The status code of the error _to_res formats for the call.
FormattedStatus(c) ==
    IF calls[c].exc.cls = "HTTPError" THEN calls[c].exc.status_code ELSE 500

\* C1: a call of the wrapped handler never ends by raising, whatever the inner
\* handler raised and whatever the configured error handler is.
C1_NeverRaises == \A c \in Done : Returned(c)

\* C2: when the inner handler raises an exception that is not an HTTPError, the
\* wrapped handler returns a response with status 500 and the trace is emitted
\* exactly once.
C2_UnknownIs500TracedOnce ==
    \A c \in Done : Unknown(c) /\ BuiltIn(c) =>
        /\ Returned(c)
        /\ Resp(c).status_code = 500
        /\ calls[c].traces = 1

\* The part of C2 the code keeps: an unknown exception that derives from
\* Exception gives a 500 response and exactly one trace with every formatter.
C2_CaughtUnknownIs500TracedOnce ==
    \A c \in Done : Unknown(c) /\ BuiltIn(c) /\ calls[c].exc.is_exception =>
        /\ Returned(c)
        /\ Resp(c).status_code = 500
        /\ calls[c].traces = 1

C4_TracedIffResponseIs500 ==
    \A c \in Done : Returned(c) =>
        /\ Resp(c).status_code = 500 => calls[c].traces >= 1
        /\ Errored(c) => (calls[c].traces >= 1 <=> Resp(c).status_code = 500)

\* C4 amended: whenever the wrapped handler returns a response on the error
\* path, one trace was emitted if the status code of the formatted error is 500
\* and none otherwise, for any error handler; with a built-in formatter that is
\* exactly when the response's status is 500.  A response the inner handler
\* returned is never traced.
C4_TracedIffErrorIs500 ==
    \A c \in Done : Returned(c) =>
        IF Errored(c)
        THEN /\ calls[c].traces = IF FormattedStatus(c) = 500 THEN 1 ELSE 0
             /\ BuiltIn(c) => (calls[c].traces = 1 <=> Resp(c).status_code = 500)
        ELSE calls[c].traces = 0

\* Both ways the two statements part: an error handler that writes another
\* status than the error's, and a 500 the inner handler returned.
C4_Witness ==
    /\ \E c \in Done : /\ calls[c].config = "custom_const"
                       /\ calls[c].exc = HTTPError(500, "")
                       /\ Returned(c) /\ calls[c].traces = 1
                       /\ Resp(c).status_code # 500
    /\ \E c \in Done : /\ ~Errored(c) /\ Returned(c)
                       /\ Resp(c).status_code = 500 /\ calls[c].traces = 0

\* C5: the error handler chosen when the wrapper was built is invoked exactly
\* once in every call whose inner handler raises, never otherwise, and no other
\* handler runs.
C5_HandlerInvokedOncePerError ==
    \A c \in Done :
        /\ Errored(c) => calls[c].invoked = <<wrapped[calls[c].config]>>
        /\ ~Errored(c) => calls[c].invoked = <<>>

\* The part of C5 the code keeps: at most one invocation per call, of the
\* wrapper's own handler, and exactly one when the exception is caught.
C5_HandlerInvokedOncePerCaughtError ==
    \A c \in Done :
        /\ Len(calls[c].invoked) <= 1
        /\ Errored(c) /\ calls[c].exc.is_exception =>
              calls[c].invoked = <<wrapped[calls[c].config]>>
        /\ ~(Errored(c) /\ calls[c].exc.is_exception) => calls[c].invoked = <<>>

GenericTitle == "Internal Server Error"

\* C6: the response returned for an exception that is not an HTTPError does not
\* depend on the exception: two calls through the same wrapper whose inner
\* handlers raised unknown exceptions get responses equal in status and body,
\* and with a formatter the status is 500 and the body carries the generic
\* title alone, in the formatter's encoding.
C6_UnknownErrorsIndistinguishable ==
    \A c1, c2 \in Done :
        /\ Unknown(c1) /\ Unknown(c2) /\ Returned(c1) /\ Returned(c2)
        /\ calls[c1].config = calls[c2].config
        => /\ Resp(c1).status_code = Resp(c2).status_code
           /\ Body(Resp(c1)) = Body(Resp(c2))
           /\ BuiltIn(c1) =>
                /\ Resp(c1).status_code = 500
                /\ Body(Resp(c1)) =
                     CASE wrapped[calls[c1].config] = "error_to_html" ->
                            <<"<h1>Internal Server Error</h1>", NoMedia, PyNone>>
                       [] wrapped[calls[c1].config] = "error_to_media" ->
                            <<PyNone, [error |-> GenericTitle, status |-> 500], PyNone>>
                       [] wrapped[calls[c1].config] = "error_to_text" ->
                            <<PyNone, NoMedia, GenericTitle>>

C6_Witness ==
    \E c1, c2 \in Done :
        /\ calls[c1].exc = OtherError("ValueError", TRUE, "secret one")
        /\ calls[c2].exc = OtherError("CancelledError", TRUE, "")
        /\ calls[c1].config = "error_to_html" /\ calls[c2].config = "error_to_html"
        /\ Returned(c1) /\ Returned(c2)
        /\ Body(Resp(c1)) = Body(Resp(c2))

\* What the inner handler did: the exception it raised, or the status and body
\* of the response it returned.
Dispatched(c) ==
    IF Errored(c) THEN <<calls[c].exc>>
    ELSE <<heap[calls[c].dispatched].status_code, Body(heap[calls[c].dispatched])>>

\* What the caller of the wrapped handler observes.
Observed(c) ==
    <<calls[c].outcome, calls[c].raised, calls[c].traces,
      IF Returned(c) THEN <<Resp(c).status_code, Body(Resp(c))>> ELSE <<>> >>

\* C8: a wrapper built with no error handler behaves like one built with
\* error_to_text: for the same outcome of the inner handler both return
\* responses with the same status and body, or raise alike, and emit the same
\* traces.
C8_DefaultIsText ==
    \A c1, c2 \in Done :
        /\ calls[c1].config = PyNone /\ calls[c2].config = "error_to_text"
        /\ Dispatched(c1) = Dispatched(c2)
        => Observed(c1) = Observed(c2)

C8_Witness ==
    \E c1, c2 \in Done :
        /\ calls[c1].config = PyNone /\ calls[c2].config = "error_to_text"
        /\ calls[c1].exc = HTTPError(404, "boom") /\ calls[c2].exc = calls[c1].exc
        /\ Returned(c1) /\ Resp(c1).text = "Not Found\nboom"
        /\ Returned(c2) /\ Resp(c2).text = "Not Found\nboom"

\* C9: every errored call gets a response object constructed for it: the step
\* that handles the error returns an object that did not exist before, bound to
\* the call's request, and no step changes a response object that exists.
C9_FreshResponsePerError ==
    [][/\ \A i \in 1..Len(heap) : i <= Len(heap') /\ heap'[i] = heap[i]
       /\ \A c \in 1..Len(calls) :
            /\ calls[c].pc = "dispatch" /\ calls'[c].pc = "done"
            /\ calls'[c].exc # NoExc /\ calls'[c].outcome = "returned"
            => /\ calls'[c].res > Len(heap)
               /\ heap'[calls'[c].res].req = calls[c].req
               /\ \A d \in 1..Len(calls) : d # c => calls[d].res # calls'[c].res
      ]_vars

C9_Witness ==
    \E c1, c2 \in Done :
        /\ c1 < c2 /\ calls[c2].res < calls[c1].res
        /\ Errored(c1) /\ Errored(c2) /\ Returned(c1) /\ Returned(c2)
        /\ calls[c2].res # 0

\* C10: when the inner handler returns, the wrapped handler returns that very
\* response as the inner handler left it; the wrapper constructs no Response,
\* invokes no error handler and emits no trace, also for a status of 500.
C10_ReturnPassesThrough ==
    /\ \A c \in Done : ~Errored(c) =>
          /\ Returned(c)
          /\ calls[c].res = calls[c].dispatched
          /\ Resp(c).owner = "dispatch"
          /\ Resp(c).status_code \in {200, 500}
          /\ Body(Resp(c)) = <<PyNone, NoMedia, "body">>
          /\ calls[c].invoked = <<>>
          /\ calls[c].traces = 0
    /\ Cardinality({i \in 1..Len(heap) : heap[i].owner = "_to_res"})
         = Cardinality({c \in Done : Errored(c) /\ calls[c].exc.is_exception})

C10_Witness ==
    \E c \in Done :
        /\ ~Errored(c) /\ Returned(c)
        /\ Resp(c).status_code = 500 /\ calls[c].traces = 0
        /\ calls[c].res = calls[c].dispatched

====
